---- MODULE Spec2Model ----
(***************************************************************************)
(* A model of the YouTube subtitle extractor backend:                      *)
(*   src/backend/app/main.py          task store, API layer, retry worker, *)
(*                                    SubtitleExtractor                    *)
(*   src/backend/app/proxy_manager.py ProxyManager                         *)
(*                                                                         *)
(* Text is modelled as a sequence of tokens (a token is a word or a short  *)
(* phrase); concatenation is \o, str.lower() maps every token to its       *)
(* lower-case form and "p in s" looks for the pattern inside the tokens.   *)
(***************************************************************************)
EXTENDS Integers, Sequences, FiniteSets, TLC

VARIABLES
    task_store,   \* main.py:43      task id -> task record
    issued,       \* main.py:406     number of task ids handed out so far
    worker,       \* main.py:331     per task: the background worker's position and locals
    resp,         \* the last HTTP response the API layer produced
    proxy_list_url,   \* proxy_manager.py:22  is WEBSHARE_PROXY_LIST_URL set
    enable_fallback,  \* proxy_manager.py:99  is ENABLE_PROXY_FALLBACK "true"
    proxy_list,       \* proxy_manager.py:19
    last_fetch,       \* proxy_manager.py:20  time of the last successful fetch, or Never
    now,              \* datetime.now(), in hours
    pm,               \* the last ProxyManager call: its result and whether it went remote
    ex,               \* one call of SubtitleExtractor.extract: input and result
    gui,              \* src/main.py:14   the window of the desktop GUI: its widgets
    threads           \* src/main.py:84   the extraction threads the GUI has started

vars == <<task_store, issued, worker, resp, proxy_list_url, enable_fallback,
          proxy_list, last_fetch, now, pm, ex, gui, threads>>

taskVars  == <<task_store, issued, worker, resp>>
proxyVars == <<proxy_list_url, enable_fallback, proxy_list, last_fetch, now, pm>>
guiVars   == <<gui, threads>>

(***************************************************************************)
(* Bounds of the model.                                                    *)
(***************************************************************************)
MaxTasks == 2      \* task ids handed out in one run
MaxTime  == 3      \* the clock runs 0..MaxTime
MaxCount == 2      \* get_multiple_proxies is called with count in 0..MaxCount
MaxFeedLines == 2  \* lines of one answer of the proxy feed
MaxErrLen == 2     \* tokens of the text of an exception
MaxThreads == 2    \* extraction threads the GUI starts in one run

(***************************************************************************)
(* Text.                                                                   *)
(***************************************************************************)
\* Python's None, where a text is expected.
None == <<"<None>">>

\* str.lower() on one token.
LowerTok(t) ==
    CASE t = "Sign in"      -> "sign in"
      [] t = "Bot"          -> "bot"
      [] t = "Forbidden"    -> "forbidden"
      [] t = "No subtitles" -> "no subtitles"
      [] OTHER              -> t

\* str.lower()
Lower(s) == [i \in 1..Len(s) |-> LowerTok(s[i])]

\* "p in tok" for a pattern p and one token: the token is the pattern, or a
\* longer word the pattern occurs in.
OccursIn(p, tok) ==
    \/ p = tok
    \/ p = "bot" /\ tok = "robot"

\* "p in s"
Contains(s, p) == \E i \in 1..Len(s) : OccursIn(p, s[i])

(***************************************************************************)
(* Python calls: a call either returns a value or raises an exception of   *)
(* some class with some text str(e).                                       *)
(***************************************************************************)
\* The result dict of extract: success with content, language and title, or
\* failure with an error; a key the dict does not hold is None here.
Success(content, language, title) ==
    [success |-> TRUE, content |-> content, language |-> language,
     title |-> title, error |-> None]

Failure(error) ==
    [success |-> FALSE, content |-> None, language |-> None,
     title |-> None, error |-> error]

NoResult == Failure(<<"<no result>">>)

Return(r)       == [exc |-> "", msg |-> <<>>, ret |-> r]
Raise(cls, msg) == [exc |-> cls, msg |-> msg, ret |-> NoResult]
NoExc           == [exc |-> "", msg |-> <<>>]

\* youtube_transcript_api._errors: the four named errors derive from
\* CouldNotRetrieveTranscript, which derives from Exception.
IsA(cls, parent) ==
    \/ cls = parent
    \/ parent = "Exception" /\ cls # ""
    \/ parent = "CouldNotRetrieveTranscript"
         /\ cls \in {"TranscriptsDisabled", "NoTranscriptFound",
                     "VideoUnavailable", "YouTubeRequestFailed"}

(***************************************************************************)
(* SubtitleExtractor (main.py:73-328).                                     *)
(***************************************************************************)
\* main.py:77
DefaultLanguages == <<"zh-TW", "zh-CN", "zh", "en">>

\* main.py:100-101
preferred_languages(language_preference) ==
    IF language_preference # <<>> /\ language_preference # None
    THEN language_preference ELSE DefaultLanguages

\* main.py:79-96. A URL is its form (which pattern it has, "bare" for a text
\* that is no URL, "other" for any other), the text the pattern's group
\* captures, the length of the whole text and whether it is made of
\* [a-zA-Z0-9_-] only.
_extract_video_id(url) ==
    IF url.form \in {"watch", "short", "embed", "v"} /\ url.id # <<>>
    THEN url.id
    ELSE IF url.len = 11 /\ url.wordchars
         THEN url.id
         ELSE None

\* The least index of a sequence of booleans that holds TRUE, 0 when none
\* does: where a for loop with a break stops.
FirstTrue(flags) ==
    IF \E i \in 1..Len(flags) : flags[i]
    THEN CHOOSE i \in 1..Len(flags) : flags[i] /\ \A j \in 1..(i-1) : ~flags[j]
    ELSE 0

\* TranscriptList.find_transcript([lang]): the manually created transcript
\* of lang, else the generated one, else NoTranscriptFound (0).
find_transcript(transcripts, lang) ==
    LET manual == [i \in 1..Len(transcripts) |->
                     transcripts[i].language_code = lang /\ ~transcripts[i].is_generated]
        generated == [i \in 1..Len(transcripts) |->
                     transcripts[i].language_code = lang /\ transcripts[i].is_generated]
    IN  IF FirstTrue(manual) # 0 THEN FirstTrue(manual) ELSE FirstTrue(generated)

\* TranscriptList.find_generated_transcript([lang])
find_generated_transcript(transcripts, lang) ==
    FirstTrue([i \in 1..Len(transcripts) |->
                 transcripts[i].language_code = lang /\ transcripts[i].is_generated])

\* main.py:186
language_label(lang, is_generated) ==
    <<lang, IF is_generated THEN "(auto-generated)" ELSE "(manual)">>

\* main.py:128-195. The selection: [idx, lang, gen] of the chosen transcript,
\* idx = 0 when there is none.
select_transcript(transcripts, prefs) ==
    LET i1 == FirstTrue([i \in 1..Len(prefs) |->
                           find_transcript(transcripts, prefs[i]) # 0])
        i2 == FirstTrue([i \in 1..Len(prefs) |->
                           find_generated_transcript(transcripts, prefs[i]) # 0])
    IN  IF i1 # 0                                          \* main.py:142-150
        THEN LET k == find_transcript(transcripts, prefs[i1])
             IN  [idx |-> k, lang |-> prefs[i1], gen |-> transcripts[k].is_generated]
        ELSE IF i2 # 0                                     \* main.py:153-162
        THEN LET k == find_generated_transcript(transcripts, prefs[i2])
             IN  [idx |-> k, lang |-> prefs[i2], gen |-> TRUE]
        ELSE IF transcripts # <<>>                         \* main.py:165-173
        THEN [idx |-> 1, lang |-> transcripts[1].language_code,
              gen |-> transcripts[1].is_generated]
        ELSE [idx |-> 0, lang |-> "", gen |-> FALSE]

\* main.py:128-195
_extract_with_transcript_api(video_id, prefs, env) ==
    IF env.list_exc.exc # ""                               \* main.py:134
    THEN Raise(env.list_exc.exc, env.list_exc.msg)
    ELSE LET sel == select_transcript(env.transcripts, prefs)
         IN  IF sel.idx = 0                                \* main.py:177-178
             THEN Raise("NoTranscriptFound", <<"No transcripts available">>)
             ELSE IF env.fetch_exc.exc # ""                \* main.py:181
             THEN Raise(env.fetch_exc.exc, env.fetch_exc.msg)
             ELSE Return(Success(env.text,
                                 language_label(sel.lang, sel.gen),
                                 <<"Video">> \o video_id))

\* dict lookup on a dict kept as a sequence of [lang, formats] in key order.
HasKey(d, lang) == \E i \in 1..Len(d) : d[i].lang = lang
Lookup(d, lang) == d[CHOOSE i \in 1..Len(d) : d[i].lang = lang].formats

\* main.py:296-328. None when the format list is empty or the download or
\* the parse raises; else the text with its language label.
NoTrack == [found |-> FALSE, text |-> None, language |-> None]

_fetch_subtitle_content(subtitle_list, language) ==
    IF subtitle_list = <<>>
    THEN NoTrack
    ELSE IF subtitle_list[1].fetch # "ok"
    THEN NoTrack
    ELSE [found |-> TRUE, text |-> subtitle_list[1].text, language |-> language]

\* No track to choose: both dicts are empty.
NoChoice == [dict |-> "none", lang |-> ""]

\* The same looking at the automatic captions of the preferred languages
\* before the manual subtitles.
best_track_AutomaticFirst(subtitles, automatic_captions, prefs) ==
    LET i1 == FirstTrue([i \in 1..Len(prefs) |-> HasKey(subtitles, prefs[i])])
        i2 == FirstTrue([i \in 1..Len(prefs) |-> HasKey(automatic_captions, prefs[i])])
    IN  IF i2 # 0
        THEN [dict |-> "automatic_captions", lang |-> prefs[i2]]
        ELSE IF i1 # 0
        THEN [dict |-> "subtitles", lang |-> prefs[i1]]
        ELSE IF subtitles # <<>>
        THEN [dict |-> "subtitles", lang |-> subtitles[1].lang]
        ELSE IF automatic_captions # <<>>
        THEN [dict |-> "automatic_captions", lang |-> automatic_captions[1].lang]
        ELSE NoChoice

\* main.py:276-292 (and src/main.py:135-151, the same code in the desktop
\* GUI): the track whose content is fetched, as the dict it is in and its
\* language.
best_track(subtitles, automatic_captions, prefs) ==
    LET i1 == FirstTrue([i \in 1..Len(prefs) |-> HasKey(subtitles, prefs[i])])
        i2 == FirstTrue([i \in 1..Len(prefs) |-> HasKey(automatic_captions, prefs[i])])
    IN  IF i1 # 0                                          \* main.py:276-278
        THEN [dict |-> "subtitles", lang |-> prefs[i1]]
        ELSE IF i2 # 0                                     \* main.py:281-283
        THEN [dict |-> "automatic_captions", lang |-> prefs[i2]]
        ELSE IF subtitles # <<>>                           \* main.py:286-288
        THEN [dict |-> "subtitles", lang |-> subtitles[1].lang]
        ELSE IF automatic_captions # <<>>                  \* main.py:290-292
        THEN [dict |-> "automatic_captions", lang |-> automatic_captions[1].lang]
        ELSE NoChoice

\* main.py:273-294: the content of the chosen track, under the label of its
\* language; None when there is no track or its content cannot be had.
_get_best_subtitles(subtitles, automatic_captions, prefs) ==
    LET track == best_track(subtitles, automatic_captions, prefs)
    IN  IF track.dict = "subtitles"
        THEN _fetch_subtitle_content(Lookup(subtitles, track.lang), <<track.lang>>)
        ELSE IF track.dict = "automatic_captions"
        THEN _fetch_subtitle_content(Lookup(automatic_captions, track.lang),
                                     <<track.lang, "(Auto-generated)">>)
        ELSE NoTrack

\* main.py:197-271: everything is inside try/except Exception.
_extract_with_ytdlp(prefs, env) ==
    IF env.ydl_exc.exc # ""                                \* main.py:250-251
    THEN Return(Failure(env.ydl_exc.msg))                  \* main.py:269-271
    ELSE LET subtitle_data ==
                 _get_best_subtitles(env.subtitles, env.automatic_captions, prefs)
         IN  IF subtitle_data.found                        \* main.py:258-265
             THEN Return(Success(subtitle_data.text, subtitle_data.language,
                                 IF env.title = None THEN <<"Unknown">> ELSE env.title))
             ELSE Return(Failure(<<"No subtitles", "found for this video">>))

\* The same without the outer try: an exception passes.
CatchAll_Nothing(r) == r

\* main.py:124-126: the outer handler of extract.
CatchAll(r) ==
    IF r.exc # "" /\ IsA(r.exc, "Exception") THEN Return(Failure(r.msg)) ELSE r

\* The same falling back to yt-dlp after every error of the transcript API.
FallsBack_AnyTranscriptError(cls) == IsA(cls, "CouldNotRetrieveTranscript")

\* main.py:116: the errors of the transcript API after which yt-dlp is tried.
FallsBack(cls) == cls \in {"TranscriptsDisabled", "NoTranscriptFound"}

\* main.py:103-122, the body of the outer try: what it returns or raises
\* (out) and the caption sources it has queried, in the order of the calls.
extract_run(url, language_preference, env) ==
    LET prefs    == preferred_languages(language_preference)
        video_id == _extract_video_id(url)
        first    == _extract_with_transcript_api(video_id, prefs, env)
    IN  IF video_id = None                                 \* main.py:108-109
        THEN [out |-> Return(Failure(<<"no video id in url">>)), queried |-> <<>>]
        ELSE IF first.exc = ""                             \* main.py:115
        THEN [out |-> first, queried |-> <<"transcript_api">>]
        ELSE IF FallsBack(first.exc)                       \* main.py:116-119
        THEN [out |-> _extract_with_ytdlp(prefs, env),
              queried |-> <<"transcript_api", "yt_dlp">>]
        ELSE IF IsA(first.exc, "CouldNotRetrieveTranscript")   \* main.py:120-122
        THEN [out |-> Return(Failure(<<"YouTube API error:">> \o first.msg)),
              queried |-> <<"transcript_api">>]
        ELSE [out |-> first, queried |-> <<"transcript_api">>]

\* main.py:98-126
extract(url, language_preference, env) ==
    CatchAll(extract_run(url, language_preference, env).out)

(***************************************************************************)
(* The task store and the retry worker (main.py:43-50, 331-388).           *)
(***************************************************************************)
\* main.py:46-50
PENDING    == "pending"
PROCESSING == "processing"
COMPLETED  == "completed"
FAILED     == "failed"
TaskStatus == {PENDING, PROCESSING, COMPLETED, FAILED}

max_retries == 3      \* main.py:333
retry_delay == 10     \* main.py:334

\* main.py:408-417 (created_at, a timestamp nothing reads, is left out)
NewTask(url) ==
    [status |-> PENDING, message |-> <<"Task queued">>, progress |-> 0,
     url |-> url, content |-> None, language |-> None, title |-> None]

\* The worker's locals: where it is (the line of main.py it executes next),
\* the loop variable, its arguments, the result of the extract call of this
\* attempt, error_msg, and how this attempt was made: the seconds slept before
\* it and the proxy it went through (None: directly; extract is given none,
\* main.py:346-347). calls counts the extract calls made, failed those of
\* them that returned a failure.
NewWorker(url, language_preference) ==
    [pc |-> "l338", attempt |-> 0, url |-> url,
     language_preference |-> language_preference,
     result |-> NoResult, error_msg |-> None, delay |-> 0, proxy |-> None,
     calls |-> 0, failed |-> 0]

\* The same with the access rule tried before the bot rule.
FailureMessage_ForbiddenFirst(error_msg) ==
    IF Contains(error_msg, "403") \/ Contains(Lower(error_msg), "forbidden")
    THEN <<"access denied:">> \o error_msg \o <<"retry later">>
    ELSE IF Contains(Lower(error_msg), "bot") \/ Contains(Lower(error_msg), "sign in")
    THEN <<"bot detection:">> \o error_msg \o <<"wait 5-10 minutes">>
    ELSE IF Contains(Lower(error_msg), "no subtitles")
    THEN <<"no subtitles available for this video">>
    ELSE error_msg

\* main.py:366-373
FailureMessage(error_msg) ==
    IF Contains(Lower(error_msg), "bot") \/ Contains(Lower(error_msg), "sign in")
    THEN <<"bot detection:">> \o error_msg \o <<"wait 5-10 minutes">>
    ELSE IF Contains(error_msg, "403") \/ Contains(Lower(error_msg), "forbidden")
    THEN <<"access denied:">> \o error_msg \o <<"retry later">>
    ELSE IF Contains(Lower(error_msg), "no subtitles")
    THEN <<"no subtitles available for this video">>
    ELSE error_msg

\* main.py:355
SuccessMessage(language) == <<"Successfully extracted subtitles">> \o language

\* The same with a step that leaves the percent range on the third attempt.
AttemptProgress_Step40(attempt) == 25 + (attempt * 40)

\* main.py:339
AttemptProgress(attempt) == 25 + (attempt * 20)

\* main.py:378-388, entered by the KeyError that task_store[task_id] raises
\* once the task is deleted: on the last attempt the handler's own
\* task_store[task_id] (main.py:383) raises again and the error leaves the
\* function; before, the loop goes on to the next attempt.
OnKeyError(w) ==
    IF w.attempt = max_retries - 1
    THEN [w EXCEPT !.pc = "crashed"]
    ELSE [w EXCEPT !.attempt = @ + 1, !.pc = "l338"]

\* One statement task_store[task_id][field] = value of the worker of task t,
\* at line from, going on to line to.
StoreWrite(t, from, field, value, to) ==
    /\ t \in DOMAIN worker
    /\ worker[t].pc = from
    /\ IF t \in DOMAIN task_store
       THEN /\ task_store' = [task_store EXCEPT ![t][field] = value]
            /\ worker' = [worker EXCEPT ![t].pc = to]
       ELSE /\ task_store' = task_store
            /\ worker' = [worker EXCEPT ![t] = OnKeyError(@)]
    /\ UNCHANGED <<issued, resp, proxyVars, ex, guiVars>>

\* main.py:338
SetProcessing(t) == StoreWrite(t, "l338", "status", PROCESSING, "l339")

\* main.py:339
SetAttemptProgress(t) ==
    /\ t \in DOMAIN worker
    /\ StoreWrite(t, "l339", "progress", AttemptProgress(worker[t].attempt), "l341")

\* The same giving up at the first failure: no retry.
AfterExtract_NoRetry(w, result, d) ==
    LET v == [w EXCEPT !.result = result, !.delay = d, !.calls = @ + 1,
                       !.failed = IF result.success THEN @ ELSE @ + 1]
    IN  IF result.success
        THEN [v EXCEPT !.pc = "l350"]
        ELSE [v EXCEPT !.error_msg = result.error, !.pc = "l362"]

\* main.py:349, 357-361, 375-376: where the worker goes with the result of
\* the extract call of this attempt, made after a delay of d seconds.
AfterExtract(w, result, d) ==
    LET v == [w EXCEPT !.result = result, !.delay = d, !.calls = @ + 1,
                       !.failed = IF result.success THEN @ ELSE @ + 1]
    IN  IF result.success
        THEN [v EXCEPT !.pc = "l350"]
        ELSE IF w.attempt = max_retries - 1
        THEN [v EXCEPT !.error_msg = result.error, !.pc = "l362"]
        ELSE [v EXCEPT !.error_msg = result.error, !.attempt = @ + 1, !.pc = "l338"]

\* main.py:341-344: the seconds slept before the extract call of an attempt.
DelayBefore(attempt) == IF attempt > 0 THEN retry_delay ELSE 0

\* main.py:341-358, 375-376: the delay before a retry, the extract call and the
\* branch on its result. The environment (what the libraries answer) is
\* chosen anew for every attempt. extract returns for every input (see
\* C8_ExtractReturns), so the handler of main.py:378 is entered only by the
\* KeyError of a deleted task.
Attempt(t, envs) ==
    /\ t \in DOMAIN worker
    /\ worker[t].pc = "l341"
    /\ \E env \in envs :
         LET w == worker[t]
             r == extract(w.url, w.language_preference, env)
         IN  /\ r.exc = ""
             /\ worker' = [worker EXCEPT ![t] = AfterExtract(w, r.ret, DelayBefore(w.attempt))]
    /\ UNCHANGED <<task_store, issued, resp, proxyVars, ex, guiVars>>

\* main.py:350-356
SetCompleted(t) == StoreWrite(t, "l350", "status", COMPLETED, "l351")

SetContent(t) ==
    /\ t \in DOMAIN worker
    /\ StoreWrite(t, "l351", "content", worker[t].result.content, "l352")

SetLanguage(t) ==
    /\ t \in DOMAIN worker
    /\ StoreWrite(t, "l352", "language", worker[t].result.language, "l353")

SetTitle(t) ==
    /\ t \in DOMAIN worker
    /\ StoreWrite(t, "l353", "title", worker[t].result.title, "l354")

SetProgressDone(t) == StoreWrite(t, "l354", "progress", 100, "l355")

\* The same without the return of main.py:356: the loop goes on.
SetSuccessMessage_NoReturn(t) ==
    /\ t \in DOMAIN worker
    /\ worker[t].pc = "l355"
    /\ t \in DOMAIN task_store
    /\ task_store' = [task_store EXCEPT
                        ![t].message = SuccessMessage(worker[t].result.language)]
    /\ worker' = [worker EXCEPT ![t] =
                    IF @.attempt = max_retries - 1
                    THEN [@ EXCEPT !.pc = "done"]
                    ELSE [@ EXCEPT !.attempt = @ + 1, !.pc = "l338"]]
    /\ UNCHANGED <<issued, resp, proxyVars, ex, guiVars>>

SetSuccessMessage(t) ==
    /\ t \in DOMAIN worker
    /\ StoreWrite(t, "l355", "message", SuccessMessage(worker[t].result.language), "done")

\* main.py:362-374
SetFailed(t) == StoreWrite(t, "l362", "status", FAILED, "l363")

SetProgressZero(t) == StoreWrite(t, "l363", "progress", 0, "l366")

SetFailureMessage(t) ==
    /\ t \in DOMAIN worker
    /\ StoreWrite(t, "l366", "message", FailureMessage(worker[t].error_msg), "done")

WorkerStep(t, envs) ==
    \/ SetProcessing(t)
    \/ SetAttemptProgress(t)
    \/ Attempt(t, envs)
    \/ SetCompleted(t)
    \/ SetContent(t)
    \/ SetLanguage(t)
    \/ SetTitle(t)
    \/ SetProgressDone(t)
    \/ SetSuccessMessage(t)
    \/ SetFailed(t)
    \/ SetProgressZero(t)
    \/ SetFailureMessage(t)

(***************************************************************************)
(* The API layer (main.py:400-472). A handler is a coroutine without an    *)
(* await: it runs to its end before another handler starts, while the      *)
(* workers (threads of the background-task pool) run between handlers.     *)
(***************************************************************************)
Response(op, id, code, status, message, progress, content, language) ==
    [op |-> op, id |-> id, code |-> code, status |-> status, message |-> message,
     progress |-> progress, content |-> content, language |-> language]

NoResponse == Response("none", 0, 0, "", None, -1, None, None)

HTTPException(op, id, code) == Response(op, id, code, "", None, -1, None, None)

\* main.py:400-424. uuid4 gives an id never given before: ids are 1, 2, ...
extract_subtitles(request, maxTasks) ==
    /\ issued < maxTasks
    /\ LET task_id == issued + 1
       IN  /\ issued' = task_id
           /\ task_store' = (task_id :> NewTask(request.url)) @@ task_store
           /\ worker' = (task_id :> NewWorker(request.url, request.language_preference))
                          @@ worker
           /\ resp' = Response("extract", task_id, 200, PENDING, <<"Task submitted">>,
                               -1, None, None)
    /\ UNCHANGED <<proxyVars, ex, guiVars>>

\* main.py:427-439
get_task_status(task_id) ==
    /\ IF task_id \notin DOMAIN task_store
       THEN resp' = HTTPException("status", task_id, 404)
       ELSE LET task == task_store[task_id]
            IN  resp' = Response("status", task_id, 200, task.status, task.message,
                                 task.progress, None, None)
    /\ UNCHANGED <<task_store, issued, worker, proxyVars, ex, guiVars>>

\* The same without the status check of main.py:450-454.
get_task_result_NoStatusCheck(task_id) ==
    /\ IF task_id \notin DOMAIN task_store
       THEN resp' = HTTPException("result", task_id, 404)
       ELSE LET task == task_store[task_id]
            IN  resp' = Response("result", task_id, 200, task.status, task.message,
                                 -1, task.content, task.language)
    /\ UNCHANGED <<task_store, issued, worker, proxyVars, ex, guiVars>>

\* main.py:442-462
get_task_result(task_id) ==
    /\ IF task_id \notin DOMAIN task_store
       THEN resp' = HTTPException("result", task_id, 404)
       ELSE LET task == task_store[task_id]
            IN  IF task.status # COMPLETED
                THEN resp' = HTTPException("result", task_id, 400)
                ELSE resp' = Response("result", task_id, 200, task.status, task.message,
                                      -1, task.content, task.language)
    /\ UNCHANGED <<task_store, issued, worker, proxyVars, ex, guiVars>>

\* The same emptying the store (task_store.clear() for del task_store[task_id]).
delete_task_ClearsStore(task_id) ==
    /\ IF task_id \notin DOMAIN task_store
       THEN /\ resp' = HTTPException("delete", task_id, 404)
            /\ task_store' = task_store
       ELSE /\ task_store' = <<>>
            /\ resp' = Response("delete", task_id, 200, "", <<"Task deleted">>,
                                -1, None, None)
    /\ UNCHANGED <<issued, worker, proxyVars, ex, guiVars>>

\* main.py:465-472
delete_task(task_id) ==
    /\ IF task_id \notin DOMAIN task_store
       THEN /\ resp' = HTTPException("delete", task_id, 404)
            /\ task_store' = task_store
       ELSE /\ task_store' = [u \in DOMAIN task_store \ {task_id} |-> task_store[u]]
            /\ resp' = Response("delete", task_id, 200, "", <<"Task deleted">>,
                                -1, None, None)
    /\ UNCHANGED <<issued, worker, proxyVars, ex, guiVars>>

(***************************************************************************)
(* ProxyManager (proxy_manager.py:15-99).                                  *)
(***************************************************************************)
cache_duration == 1     \* proxy_manager.py:21, in hours
Never == -1             \* last_fetch is None

\* What requests.get(proxy_list_url) answers: an error (the request raises
\* or raise_for_status does), or a text. A text is its lines, a line is its
\* parts between ':' after strip(); a blank line has no part.
FeedError(lines) == [ok |-> FALSE, lines |-> lines]
FeedText(lines)  == [ok |-> TRUE, lines |-> lines]

\* proxy_manager.py:54-58: IP:PORT:USERNAME:PASSWORD becomes
\* http://USERNAME:PASSWORD@IP:PORT
proxy_url(parts) == <<"http://", parts[3], ":", parts[4], "@", parts[1], ":", parts[2]>>

\* proxy_manager.py:48-58
RECURSIVE ParseLines(_)
ParseLines(lines) ==
    IF lines = <<>>
    THEN <<>>
    ELSE LET parts == Head(lines)
         IN  IF parts # <<>> /\ Len(parts) = 4
             THEN <<proxy_url(parts)>> \o ParseLines(Tail(lines))
             ELSE ParseLines(Tail(lines))

\* The same refreshing already when exactly the cache duration has passed.
_should_refresh_AtBoundary ==
    \/ proxy_list = <<>>
    \/ last_fetch = Never
    \/ now - last_fetch >= cache_duration

\* proxy_manager.py:27-35
_should_refresh ==
    \/ proxy_list = <<>>
    \/ last_fetch = Never
    \/ now - last_fetch > cache_duration

\* proxy_manager.py:37-66: the new proxy_list and last_fetch, the value
\* returned and whether the request went out, when the feed answers
\* response.
fetch_proxies(response) ==
    IF ~proxy_list_url                                   \* proxy_manager.py:39-41
    THEN [proxy_list |-> proxy_list, last_fetch |-> last_fetch,
          ret |-> FALSE, remote |-> FALSE]
    ELSE IF ~response.ok                                 \* proxy_manager.py:64-66
    THEN [proxy_list |-> proxy_list, last_fetch |-> last_fetch,
          ret |-> FALSE, remote |-> TRUE]
    ELSE [proxy_list |-> ParseLines(response.lines), last_fetch |-> now,
          ret |-> TRUE, remote |-> TRUE]

\* proxy_manager.py:71-72, 84-85: "refresh if needed"
Refreshed(response) ==
    IF _should_refresh
    THEN fetch_proxies(response)
    ELSE [proxy_list |-> proxy_list, last_fetch |-> last_fetch,
          ret |-> FALSE, remote |-> FALSE]

\* random.choices(population, k=k): k positions, a position may repeat.
Samples_WithReplacement(population, k) ==
    {[i \in 1..k |-> population[idx[i]]] : idx \in [1..k -> 1..Len(population)]}

\* random.sample(population, k): k positions, no position twice, in any order.
Samples(population, k) ==
    {[i \in 1..k |-> population[idx[i]]] :
        idx \in {f \in [1..k -> 1..Len(population)] :
                    \A i, j \in 1..k : i # j => f[i] # f[j]}}

Min(a, b) == IF a < b THEN a ELSE b

\* The record of a ProxyManager call: which, with what count, what it
\* returned, whether it asked the feed and when it was made; turn flips at
\* every call.
Called(op, count, ret, remote) ==
    [op |-> op, count |-> count, ret |-> ret, remote |-> remote, at |-> now,
     turn |-> 1 - pm.turn]

\* proxy_manager.py:81-95
get_multiple_proxies(count, responses) ==
    /\ \E response \in responses :
         LET r == Refreshed(response)
         IN  /\ proxy_list' = r.proxy_list
             /\ last_fetch' = r.last_fetch
             /\ IF r.proxy_list = <<>>
                THEN pm' = Called("get_multiple_proxies", count, <<>>, r.remote)
                ELSE \E proxies \in Samples(r.proxy_list, Min(count, Len(r.proxy_list))) :
                       pm' = Called("get_multiple_proxies", count, proxies, r.remote)
    /\ UNCHANGED <<taskVars, proxy_list_url, enable_fallback, now, ex, guiVars>>

\* proxy_manager.py:68-79; the value returned is kept as a list of at most one.
get_random_proxy(responses) ==
    /\ \E response \in responses :
         LET r == Refreshed(response)
         IN  /\ proxy_list' = r.proxy_list
             /\ last_fetch' = r.last_fetch
             /\ IF r.proxy_list = <<>>
                THEN pm' = Called("get_random_proxy", 1, <<>>, r.remote)
                ELSE \E i \in 1..Len(r.proxy_list) :
                       pm' = Called("get_random_proxy", 1, <<r.proxy_list[i]>>, r.remote)
    /\ UNCHANGED <<taskVars, proxy_list_url, enable_fallback, now, ex, guiVars>>

\* proxy_manager.py:97-99
is_enabled == proxy_list_url /\ enable_fallback

\* Time passes.
Tick ==
    /\ now < MaxTime
    /\ now' = now + 1
    /\ UNCHANGED <<taskVars, proxy_list_url, enable_fallback, proxy_list, last_fetch, pm, ex, guiVars>>

(***************************************************************************)
(* The inputs: what the callers send and what the libraries answer.        *)
(***************************************************************************)
\* All sequences over S of length lo..hi.
SeqsOf(S, lo, hi) == UNION {[1..n -> S] : n \in lo..hi}

\* URLs: a watch URL, a short URL with nothing after the slash, a bare
\* 11-character video id, a text that is neither.
UrlWatch == [form |-> "watch", id |-> <<"dQw4w9WgXcQ">>, len |-> 43, wordchars |-> FALSE]
UrlShortEmpty == [form |-> "short", id |-> <<>>, len |-> 17, wordchars |-> FALSE]
UrlBareId == [form |-> "bare", id |-> <<"dQw4w9WgXcQ">>, len |-> 11, wordchars |-> TRUE]
UrlOther == [form |-> "other", id |-> <<"example.org">>, len |-> 11, wordchars |-> FALSE]
Urls == {UrlWatch, UrlShortEmpty, UrlBareId, UrlOther}

LanguagePreferences == {None, <<"en", "zh-TW", "zh-CN">>}

ExcClasses == {"TranscriptsDisabled", "NoTranscriptFound", "VideoUnavailable",
               "YouTubeRequestFailed", "CouldNotRetrieveTranscript", "Exception"}

ErrTokens == {"Sign in", "robot", "403", "Forbidden", "No subtitles", "timeout"}
ErrTexts  == SeqsOf(ErrTokens, 1, MaxErrLen)

\* The transcripts of a video, manually created ones first: those of the
\* languages in manual, then the generated ones of the languages in generated.
TranscriptLangs == <<"en", "fr">>

TranscriptsOf(manual, generated) ==
    LET pick(S, gen) == SelectSeq([i \in 1..Len(TranscriptLangs) |->
                                      [language_code |-> TranscriptLangs[i],
                                       is_generated |-> gen]],
                                  LAMBDA t : t.language_code \in S)
    IN  pick(manual, FALSE) \o pick(generated, TRUE)

LangSets == SUBSET {TranscriptLangs[i] : i \in 1..Len(TranscriptLangs)}
TranscriptLists == {TranscriptsOf(m, g) : m \in LangSets, g \in LangSets}

\* The formats of one caption track of yt-dlp: none, one whose download
\* works, one whose download fails.
TrackOk    == <<[ext |-> "json3", fetch |-> "ok", text |-> <<"caption text">>]>>
TrackFails == <<[ext |-> "vtt", fetch |-> "error", text |-> <<>>]>>
CaptionDicts == {<<>>,
                 <<[lang |-> "en", formats |-> TrackOk]>>,
                 <<[lang |-> "en", formats |-> TrackFails]>>,
                 <<[lang |-> "fr", formats |-> <<>>], [lang |-> "en", formats |-> TrackOk]>>,
                 <<[lang |-> "fr", formats |-> TrackOk]>>}

AutoCaptionDicts == {<<>>,
                     <<[lang |-> "en", formats |-> TrackOk]>>,
                     <<[lang |-> "fr", formats |-> TrackOk]>>}

Env(list_exc, transcripts, fetch_exc, ydl_exc, subtitles, automatic_captions, title) ==
    [list_exc |-> list_exc, transcripts |-> transcripts, fetch_exc |-> fetch_exc,
     text |-> <<"transcript text">>, ydl_exc |-> ydl_exc, subtitles |-> subtitles,
     automatic_captions |-> automatic_captions, title |-> title]

Exc(cls, msg) == [exc |-> cls, msg |-> msg]

\* The environments of the extractor's own specification.
ExtractEnvs ==
    {Env(le, tr, fe, ye, su, au, ti) :
        le \in {NoExc} \cup {Exc(c, <<"Sign in">>) : c \in ExcClasses},
        tr \in TranscriptLists,
        fe \in {NoExc, Exc("Exception", <<"timeout">>), Exc("NoTranscriptFound", <<"403">>)},
        ye \in {NoExc, Exc("Exception", <<"robot", "Forbidden">>)},
        su \in CaptionDicts,
        au \in AutoCaptionDicts,
        ti \in {None, <<"a title">>}}

\* The environments of the task specifications: a video with a manual
\* transcript; YouTube refusing the request; a video without any captions.
EnvOk      == Env(NoExc, TranscriptsOf({"en"}, {}), NoExc, NoExc, <<>>, <<>>, None)
EnvBlocked == Env(Exc("YouTubeRequestFailed", <<"Sign in", "robot">>), <<>>,
                  NoExc, NoExc, <<>>, <<>>, None)
EnvNoSubs  == Env(Exc("TranscriptsDisabled", <<"disabled">>), <<>>,
                  NoExc, NoExc, <<>>, <<>>, None)
TaskEnvs   == {EnvOk, EnvBlocked, EnvNoSubs}

\* The environments of the retry specification: the transcript API has no
\* transcript and yt-dlp fails with any text, or the transcript API fails
\* with a text of one token, or the video has a transcript.
RetryEnvs ==
    {EnvOk}
    \cup {Env(Exc("TranscriptsDisabled", <<"disabled">>), <<>>, NoExc,
              Exc("Exception", m), <<>>, <<>>, None) : m \in ErrTexts}
    \cup {Env(Exc("VideoUnavailable", <<tok>>), <<>>, NoExc, NoExc, <<>>, <<>>, None) :
              tok \in ErrTokens}

Requests == {[url |-> UrlWatch, language_preference |-> None],
             [url |-> UrlOther, language_preference |-> <<"en", "zh-TW", "zh-CN">>]}

\* The answers of the proxy feed.
FeedLines == {<<>>, <<"ip1", "80">>, <<"ip1", "80", "u1", "pw1">>,
              <<"ip2", "81", "u2", "pw2">>}
Responses == {FeedError(<<>>)} \cup {FeedText(l) : l \in SeqsOf(FeedLines, 0, MaxFeedLines)}

(***************************************************************************)
(* The desktop GUI (src/main.py). The handlers of the window run on the    *)
(* main thread, one at a time; an extraction runs on a thread of its own.  *)
(* A message box is modal: while one is open the window takes no input.    *)
(***************************************************************************)
NORMAL   == "normal"      \* tk.NORMAL
DISABLED == "disabled"    \* tk.DISABLED

\* src/main.py:37-64: the widgets after __init__; warning is the message box
\* of src/main.py:76, open or not.
NewGui ==
    [url_entry |-> <<>>, extract_btn |-> NORMAL, copy_btn |-> DISABLED,
     save_btn |-> DISABLED, text_display |-> <<>>, status_label |-> <<"ready">>,
     subtitle_content |-> <<>>, warning |-> FALSE]

\* src/main.py:132: the language preference of the GUI's _get_best_subtitles
GuiLanguages == <<"zh-TW", "zh-CN", "zh", "en", "en-US">>

\* src/main.py:88: a thread at the start of _extract_subtitles_thread(url);
\* pc is the line of src/main.py it executes next.
NewThread(url) == [pc |-> "l91", url |-> url, subtitle_data |-> NoTrack, error |-> None]

InitGui ==
    /\ gui = NewGui
    /\ threads = <<>>

\* str.strip() of a line of text: the blanks at its ends go.
RECURSIVE lstrip(_)
lstrip(s) == IF s # <<>> /\ Head(s) = " " THEN lstrip(Tail(s)) ELSE s

RECURSIVE rstrip(_)
rstrip(s) == IF s # <<>> /\ s[Len(s)] = " " THEN rstrip(SubSeq(s, 1, Len(s) - 1)) ELSE s

strip(s) == rstrip(lstrip(s))

\* The threads that have not returned yet.
active == {t \in 1..Len(threads) : threads[t].pc # "done"}

\* A message box is open: the warning of the main thread, or the box of a
\* thread that waits in messagebox.showinfo or showerror (src/main.py:120, 124).
DialogOpen ==
    \/ gui.warning
    \/ \E t \in 1..Len(threads) : threads[t].pc \in {"l120", "l124"}

\* The user changes the text of the URL field.
EditUrl(text) ==
    /\ ~DialogOpen
    /\ gui.url_entry # text
    /\ gui' = [gui EXCEPT !.url_entry = text]
    /\ UNCHANGED <<taskVars, proxyVars, ex, threads>>

\* src/main.py:71-86, YouTubeSubtitleExtractor.extract_subtitles (the name
\* extract_subtitles is the API route's here)
gui_extract_subtitles(maxThreads) ==
    LET url == strip(gui.url_entry)
    IN  IF url = <<>>                                      \* src/main.py:75-77
        THEN /\ gui' = [gui EXCEPT !.warning = TRUE]
             /\ threads' = threads
        ELSE /\ Len(threads) < maxThreads
             /\ gui' = [gui EXCEPT !.extract_btn = DISABLED,    \* src/main.py:80
                                   !.text_display = <<>>]       \* src/main.py:81
             /\ threads' = Append(threads, NewThread(url))      \* src/main.py:84-86

\* src/main.py:45: a click on the extract button runs its command; a
\* disabled button takes no click.
ClickExtract(maxThreads) ==
    /\ ~DialogOpen
    /\ gui.extract_btn = NORMAL
    /\ gui_extract_subtitles(maxThreads)
    /\ UNCHANGED <<taskVars, proxyVars, ex>>

\* src/main.py:39: Return in the URL field calls extract_subtitles.
PressReturn(maxThreads) ==
    /\ ~DialogOpen
    /\ gui_extract_subtitles(maxThreads)
    /\ UNCHANGED <<taskVars, proxyVars, ex>>

\* The user closes the warning of src/main.py:76.
DismissWarning ==
    /\ gui.warning
    /\ gui' = [gui EXCEPT !.warning = FALSE]
    /\ UNCHANGED <<taskVars, proxyVars, ex, threads>>

\* One step of thread t that writes widgets: the thread goes from line
\* from to line to.
ThreadStep(t, from, to) ==
    /\ t \in 1..Len(threads)
    /\ threads[t].pc = from
    /\ threads' = [threads EXCEPT ![t].pc = to]
    /\ UNCHANGED <<taskVars, proxyVars, ex>>

\* src/main.py:91
SetStatusExtracting(t) ==
    /\ ThreadStep(t, "l91", "l104")
    /\ gui' = [gui EXCEPT !.status_label = <<"extracting">>]

\* src/main.py:103-112, 122: yt-dlp answers or raises, and the best track is
\* looked for among the captions it lists.
ExtractInfo(t, envs) ==
    /\ t \in 1..Len(threads)
    /\ threads[t].pc = "l104"
    /\ \E env \in envs :
         IF env.ydl_exc.exc # ""
         THEN threads' = [threads EXCEPT ![t].error = env.ydl_exc.msg, ![t].pc = "l123"]
         ELSE LET subtitle_data ==
                      _get_best_subtitles(env.subtitles, env.automatic_captions,
                                          GuiLanguages)
              IN  threads' = [threads EXCEPT
                                ![t].subtitle_data = subtitle_data,
                                ![t].pc = IF subtitle_data.found THEN "l113" ELSE "l119"]
    /\ UNCHANGED <<taskVars, proxyVars, ex, gui>>

\* src/main.py:113-117
ShowSubtitles(t) ==
    /\ ThreadStep(t, "l113", "l127")
    /\ gui' = [gui EXCEPT !.subtitle_content = threads[t].subtitle_data.text,
                          !.text_display = threads[t].subtitle_data.text \o @,
                          !.copy_btn = NORMAL,
                          !.save_btn = NORMAL,
                          !.status_label = <<"extracted">>
                                             \o threads[t].subtitle_data.language]

\* src/main.py:119-120: the status, then the message box opens.
ShowNotFound(t) ==
    /\ ThreadStep(t, "l119", "l120")
    /\ gui' = [gui EXCEPT !.status_label = <<"no subtitles found">>]

\* src/main.py:123-124: the status, then the message box opens.
ShowError(t) ==
    /\ ThreadStep(t, "l123", "l124")
    /\ gui' = [gui EXCEPT !.status_label = <<"error:">> \o threads[t].error]

\* The user closes the message box of src/main.py:120 or 124: the call
\* returns.
DismissDialog(t) ==
    /\ \/ ThreadStep(t, "l120", "l127")
       \/ ThreadStep(t, "l124", "l127")
    /\ gui' = gui

\* src/main.py:126-127: finally
EnableExtractButton(t) ==
    /\ ThreadStep(t, "l127", "done")
    /\ gui' = [gui EXCEPT !.extract_btn = NORMAL]

\* src/main.py:88-127, _extract_subtitles_thread
_extract_subtitles_thread(t, envs) ==
    \/ SetStatusExtracting(t)
    \/ ExtractInfo(t, envs)
    \/ ShowSubtitles(t)
    \/ ShowNotFound(t)
    \/ ShowError(t)
    \/ DismissDialog(t)
    \/ EnableExtractButton(t)

\* What the user may type into the URL field, and what yt-dlp may answer.
UrlTexts == {<<>>, <<" ">>, <<"https://youtu.be/dQw4w9WgXcQ", " ">>}

GuiEnvs ==
    {Env(NoExc, <<>>, NoExc, ye, su, <<>>, <<"a title">>) :
        ye \in {NoExc, Exc("Exception", <<"timeout">>)},
        su \in {<<>>, <<[lang |-> "en", formats |-> TrackOk]>>}}

(***************************************************************************)
(* The specifications.                                                     *)
(***************************************************************************)
NoCall == [op |-> "none", count |-> 0, ret |-> <<>>, remote |-> FALSE, at |-> 0,
           turn |-> 0]
NoExtract == [phase |-> "idle"]

InitTasks ==
    /\ task_store = <<>>
    /\ issued = 0
    /\ worker = <<>>
    /\ resp = NoResponse

InitProxy ==
    /\ proxy_list = <<>>
    /\ last_fetch = Never
    /\ now = 0
    /\ pm = NoCall

\* The API and the workers of up to MaxTasks tasks.
Init ==
    /\ InitTasks
    /\ InitProxy
    /\ InitGui
    /\ proxy_list_url = FALSE
    /\ enable_fallback = FALSE
    /\ ex = NoExtract

Next ==
    \/ \E request \in Requests : extract_subtitles(request, MaxTasks)
    \/ \E task_id \in 1..MaxTasks : get_task_status(task_id)
    \/ \E task_id \in 1..MaxTasks : get_task_result(task_id)
    \/ \E task_id \in 1..MaxTasks : delete_task(task_id)
    \/ \E t \in 1..MaxTasks : WorkerStep(t, TaskEnvs)

Spec == Init /\ [][Next]_vars

\* The same with the scheduling the runtime gives: a background task that
\* can take a step is run, its thread is not starved.
\* Submissions, deletions and the workers (a status poll or a result fetch
\* writes nothing a worker reads).
NextFair ==
    \/ \E request \in Requests : extract_subtitles(request, MaxTasks)
    \/ \E task_id \in 1..MaxTasks : delete_task(task_id)
    \/ \E t \in 1..MaxTasks : WorkerStep(t, TaskEnvs)

FairSpec ==
    Init /\ [][NextFair]_vars /\ \A t \in 1..MaxTasks : WF_vars(WorkerStep(t, TaskEnvs))

\* One retry loop of a task that stays in the store, with every error text,
\* beside a proxy manager that some caller has asked for proxies, under
\* every configuration of the proxies.
InitRetry ==
    /\ InitTasks
    /\ InitProxy
    /\ InitGui
    /\ proxy_list_url \in BOOLEAN
    /\ enable_fallback \in BOOLEAN
    /\ ex = NoExtract

NextRetry ==
    \/ \E request \in Requests : extract_subtitles(request, 1)
    \/ WorkerStep(1, RetryEnvs)
    \/ get_multiple_proxies(max_retries, {FeedText(<<<<"ip1", "80", "u1", "pw1">>>>)})

RetrySpec == InitRetry /\ [][NextRetry]_vars

\* The proxy manager alone.
InitProxyManager ==
    /\ InitTasks
    /\ InitProxy
    /\ InitGui
    /\ proxy_list_url \in BOOLEAN
    /\ enable_fallback = TRUE
    /\ ex = NoExtract

NextProxy ==
    \/ \E count \in 0..MaxCount : get_multiple_proxies(count, Responses)
    \/ get_random_proxy(Responses)
    \/ Tick

ProxySpec == InitProxyManager /\ [][NextProxy]_vars

\* One call of extract, for every URL, preference and environment.
InitExtract ==
    /\ InitTasks
    /\ InitProxy
    /\ InitGui
    /\ proxy_list_url = FALSE
    /\ enable_fallback = FALSE
    /\ ex \in {[phase |-> "called", url |-> u, language_preference |-> lp,
                env |-> e, out |-> Return(NoResult), queried |-> <<>>] :
                  u \in Urls, lp \in LanguagePreferences, e \in ExtractEnvs}

CallExtract ==
    /\ ex.phase = "called"
    /\ ex' = [ex EXCEPT !.phase = "returned",
                        !.out = extract(ex.url, ex.language_preference, ex.env),
                        !.queried = extract_run(ex.url, ex.language_preference,
                                                ex.env).queried]
    /\ UNCHANGED <<taskVars, proxyVars, guiVars>>

ExtractSpec == InitExtract /\ [][CallExtract]_vars

\* One call of _extract_with_transcript_api, for every preference and every
\* list of transcripts; the fetch of the chosen transcript works or fails.
SelectPreferences == LanguagePreferences \cup {<<"fr", "en">>}

InitTranscript ==
    /\ InitTasks
    /\ InitProxy
    /\ InitGui
    /\ proxy_list_url = FALSE
    /\ enable_fallback = FALSE
    /\ ex \in {[phase |-> "called", video_id |-> UrlWatch.id,
                prefs |-> preferred_languages(lp),
                env |-> Env(NoExc, tr, fe, NoExc, <<>>, <<>>, None),
                out |-> Return(NoResult)] :
                  lp \in SelectPreferences, tr \in TranscriptLists,
                  fe \in {NoExc, Exc("Exception", <<"timeout">>)}}

CallTranscriptApi ==
    /\ ex.phase = "called"
    /\ ex' = [ex EXCEPT !.phase = "returned",
                        !.out = _extract_with_transcript_api(ex.video_id, ex.prefs, ex.env)]
    /\ UNCHANGED <<taskVars, proxyVars, guiVars>>

TranscriptSpec == InitTranscript /\ [][CallTranscriptApi]_vars

\* One call of _get_best_subtitles inside _extract_with_ytdlp, for every
\* preference (those of the backend and the list of the desktop GUI,
\* src/main.py:132) and every pair of caption dicts.
SubtitleDicts ==
    CaptionDicts \cup {<<[lang |-> "en", formats |-> TrackFails],
                         [lang |-> "fr", formats |-> TrackOk]>>}

AutomaticDicts ==
    AutoCaptionDicts \cup {<<[lang |-> "en", formats |-> TrackFails]>>,
                           <<[lang |-> "fr", formats |-> TrackOk],
                             [lang |-> "en", formats |-> TrackOk]>>}

InitCaption ==
    /\ InitTasks
    /\ InitProxy
    /\ InitGui
    /\ proxy_list_url = FALSE
    /\ enable_fallback = FALSE
    /\ ex \in {[phase |-> "called", prefs |-> prefs,
                env |-> Env(NoExc, <<>>, NoExc, NoExc, su, au, <<"a title">>),
                track |-> NoChoice, out |-> NoTrack, reply |-> Return(NoResult)] :
                  prefs \in {preferred_languages(lp) : lp \in SelectPreferences}
                               \cup {GuiLanguages},
                  su \in SubtitleDicts, au \in AutomaticDicts}

CallGetBestSubtitles ==
    /\ ex.phase = "called"
    /\ ex' = [ex EXCEPT
                !.phase = "returned",
                !.track = best_track(ex.env.subtitles, ex.env.automatic_captions, ex.prefs),
                !.out = _get_best_subtitles(ex.env.subtitles, ex.env.automatic_captions,
                                            ex.prefs),
                !.reply = _extract_with_ytdlp(ex.prefs, ex.env)]
    /\ UNCHANGED <<taskVars, proxyVars, guiVars>>

CaptionSpec == InitCaption /\ [][CallGetBestSubtitles]_vars

\* The desktop GUI: the user and up to MaxThreads extraction threads.
InitDesktop ==
    /\ InitTasks
    /\ InitProxy
    /\ InitGui
    /\ proxy_list_url = FALSE
    /\ enable_fallback = FALSE
    /\ ex = NoExtract

NextGui ==
    \/ \E text \in UrlTexts : EditUrl(text)
    \/ ClickExtract(MaxThreads)
    \/ PressReturn(MaxThreads)
    \/ DismissWarning
    \/ \E t \in 1..MaxThreads : _extract_subtitles_thread(t, GuiEnvs)

GuiSpec == InitDesktop /\ [][NextGui]_vars

(***************************************************************************)
(* The claims.                                                             *)
(***************************************************************************)
StatusRank(status) ==
    CASE status = PENDING    -> 0
      [] status = PROCESSING -> 1
      [] OTHER               -> 2

\* C1: in every step, the status of every task that stays in the store moves
\* forward or stays (pending < processing < completed, failed): it never
\* returns to pending, a completed or failed task keeps its status, and a
\* task id that left the store does not come back.
C1_StatusMovesForward ==
    [][/\ \A t \in DOMAIN task_store \cap DOMAIN task_store' :
            /\ StatusRank(task_store[t].status) <= StatusRank(task_store'[t].status)
            /\ task_store[t].status \in {COMPLETED, FAILED}
                 => task_store'[t].status = task_store[t].status
       /\ \A t \in 1..issued :
            t \notin DOMAIN task_store => t \notin DOMAIN task_store'
      ]_vars

\* A task completed by its third attempt while the other task has failed.
C1_Witness ==
    \E t, u \in DOMAIN task_store :
        /\ task_store[t].status = COMPLETED
        /\ worker[t].calls = max_retries
        /\ worker[t].pc = "done"
        /\ task_store[u].status = FAILED

\* C2: a call of get_task_result leaves the task store as it is; it answers
\* 404 for an id the store does not hold, 400 for a task that is pending,
\* processing or failed, and only for a completed task 200 with the task's
\* content.
C2_ResultOnlyWhenCompleted ==
    [][\A id \in 1..MaxTasks :
          get_task_result(id) =>
            /\ task_store' = task_store
            /\ IF id \notin DOMAIN task_store
               THEN resp'.code = 404 /\ resp'.content = None
               ELSE IF task_store[id].status \in {PENDING, PROCESSING, FAILED}
               THEN resp'.code = 400 /\ resp'.content = None
               ELSE /\ task_store[id].status = COMPLETED
                    /\ resp'.code = 200
                    /\ resp'.content = task_store[id].content
      ]_vars

\* The result of a failed task was asked for and refused.
C2_Witness ==
    /\ resp.op = "result"
    /\ resp.code = 400
    /\ resp.id \in DOMAIN task_store
    /\ task_store[resp.id].status = FAILED

\* C3: under fair scheduling of the workers every task in the store is
\* eventually completed or failed, unless it is deleted; and always: a
\* worker makes at most 3 extract calls, a task is completed only by a call
\* that succeeded after all earlier calls failed, the worker marks it
\* completed right after the first success, and a task is failed only when
\* 3 calls have been made and all 3 failed.
C3_EventuallySettled ==
    /\ \A t \in 1..MaxTasks :
         (t \in DOMAIN task_store)
           ~> (t \notin DOMAIN task_store \/ task_store[t].status \in {COMPLETED, FAILED})
    /\ [](\A t \in DOMAIN task_store :
            /\ worker[t].calls <= 3
            /\ task_store[t].status = COMPLETED
                 => worker[t].result.success /\ worker[t].calls = worker[t].failed + 1
            /\ task_store[t].status \in {PENDING, PROCESSING} /\ worker[t].calls # worker[t].failed
                 => worker[t].result.success /\ worker[t].pc = "l350"
            /\ task_store[t].status = FAILED
                 => worker[t].calls = 3 /\ worker[t].failed = 3)

\* A task failed after three failed calls and is still in the store.
C3_Witness ==
    \E t \in DOMAIN task_store :
        /\ task_store[t].status = FAILED
        /\ worker[t].failed = 3
        /\ worker[t].pc = "done"

\* C4: the first extract call of a worker is made directly and without
\* delay; every later call follows a failed call, and goes through a proxy
\* of the proxy manager's list when proxy fallback is enabled and the list
\* holds proxies, and otherwise directly after retry_delay seconds.
C4_RetriesThroughProxies ==
    [][Attempt(1, RetryEnvs) =>
         IF worker[1].attempt = 0
         THEN worker'[1].delay = 0 /\ worker'[1].proxy = None
         ELSE /\ worker[1].calls >= 1
              /\ ~worker[1].result.success
              /\ IF is_enabled /\ proxy_list # <<>>
                 THEN \E i \in 1..Len(proxy_list) : worker'[1].proxy = proxy_list[i]
                 ELSE worker'[1].proxy = None /\ worker'[1].delay = retry_delay
      ]_vars

\* C5: a call of delete_task for a stored id answers 200 and removes that
\* task and nothing else, every other task keeping its state; for an id the
\* store does not hold it answers 404 and leaves the store as it is. A
\* status poll, a result fetch and a delete for an id that was handed out
\* and deleted answer 404, and such an id never returns to the store.
C5_DeleteRemovesExactlyOne ==
    [][/\ \A id \in 1..MaxTasks :
            delete_task(id) =>
              IF id \in DOMAIN task_store
              THEN /\ resp'.code = 200
                   /\ DOMAIN task_store' = DOMAIN task_store \ {id}
                   /\ \A u \in DOMAIN task_store' : task_store'[u] = task_store[u]
              ELSE resp'.code = 404 /\ task_store' = task_store
       /\ \A id \in 1..issued :
            id \notin DOMAIN task_store =>
              /\ id \notin DOMAIN task_store'
              /\ (get_task_status(id) \/ get_task_result(id) \/ delete_task(id))
                   => resp'.code = 404
      ]_vars

\* A task was deleted, the other task is still stored, and a result fetch
\* for the deleted id got 404.
C5_Witness ==
    /\ issued = 2
    /\ resp.op = "result"
    /\ resp.code = 404
    /\ resp.id \notin DOMAIN task_store
    /\ DOMAIN task_store # {}

\* C6: the progress of a task is within 0..100; it is 0 while the task is
\* pending; while the extract call of attempt k = 0, 1, 2 is due or running
\* the task is processing with progress 25, 45, 65; it is 100 only for a
\* completed task; once the worker has returned it is 100 for a completed
\* and 0 for a failed task.
C6_Progress ==
    \A t \in DOMAIN task_store :
        LET task == task_store[t]
            w    == worker[t]
        IN  /\ task.progress \in 0..100
            /\ task.status = PENDING => task.progress = 0
            /\ w.pc = "l341" =>
                 /\ task.status = PROCESSING
                 /\ w.attempt \in {0, 1, 2}
                 /\ task.progress = <<25, 45, 65>>[w.attempt + 1]
            /\ task.progress = 100 => task.status = COMPLETED
            /\ w.pc = "done" =>
                 /\ task.status \in {COMPLETED, FAILED}
                 /\ task.status = COMPLETED => task.progress = 100
                 /\ task.status = FAILED => task.progress = 0

\* The third attempt of a task is running, at 65 percent.
C6_Witness ==
    \E t \in DOMAIN task_store :
        /\ worker[t].pc = "l341"
        /\ worker[t].attempt = 2
        /\ task_store[t].progress = 65

\* Does the text e hold the pattern, in any mix of upper and lower case?
Mentions(e, pattern) ==
    \E i \in 1..Len(e) :
        \/ e[i] = pattern
        \/ LowerTok(e[i]) = pattern
        \/ pattern = "bot" /\ e[i] = "robot"

\* The message the claim gives for the error e of the last attempt, by the
\* first rule that matches.
C7_MessageFor(e) ==
    IF Mentions(e, "bot") \/ Mentions(e, "sign in")
    THEN <<"bot detection:">> \o e \o <<"wait 5-10 minutes">>
    ELSE IF Mentions(e, "403") \/ Mentions(e, "forbidden")
    THEN <<"access denied:">> \o e \o <<"retry later">>
    ELSE IF Mentions(e, "no subtitles")
    THEN <<"no subtitles available for this video">>
    ELSE e

\* C7: once the worker has returned from a task it marked failed, the
\* task's message is the one the rules (bot or sign in; 403 or forbidden;
\* no subtitles; else the error itself, the first that matches) give for
\* the error of the third, last extract call.
C7_FailureMessage ==
    \A t \in DOMAIN task_store :
        task_store[t].status = FAILED /\ worker[t].pc = "done" =>
            /\ worker[t].calls = 3
            /\ ~worker[t].result.success
            /\ task_store[t].message = C7_MessageFor(worker[t].result.error)

\* A failed task whose last error names both 403 and a bot: the bot rule
\* comes first.
C7_Witness ==
    \E t \in DOMAIN task_store :
        /\ task_store[t].status = FAILED
        /\ worker[t].pc = "done"
        /\ worker[t].result.error = <<"403", "robot">>
        /\ task_store[t].message = <<"bot detection:", "403", "robot", "wait 5-10 minutes">>

\* C8: a call of extract returns (no exception leaves it), and what it
\* returns is a success with a content, a language and a title, or a
\* failure with an error text.
C8_ExtractReturns ==
    ex.phase = "returned" =>
        /\ ex.out.exc = ""
        /\ IF ex.out.ret.success
           THEN /\ ex.out.ret.content # None
                /\ ex.out.ret.language # None
                /\ ex.out.ret.title # None
           ELSE /\ ex.out.ret.error # None
                /\ ex.out.ret.error # <<"<no result>">>

\* extract returned a failure although a library raised an exception that
\* is none of the transcript API's: the outer handler caught it.
C8_Witness ==
    /\ ex.phase = "returned"
    /\ _extract_video_id(ex.url) # None
    /\ ex.env.list_exc.exc = "Exception"
    /\ ~ex.out.ret.success
    /\ ex.out.ret.error = ex.env.list_exc.msg

\* C9 as stated, for a configured list URL: a call of get_random_proxy or
\* get_multiple_proxies asks the feed if and only if no fetch has succeeded
\* yet or more than the cache duration has passed since the last one that
\* did.
C9_TimeWindowOnly ==
    [][pm'.turn # pm.turn /\ proxy_list_url =>
         (pm'.remote <=> (last_fetch = Never \/ now - last_fetch > cache_duration))
      ]_vars

\* C9 as amended: a call asks the feed if and only if the list URL is
\* configured and the cached list is empty (as it is before the first
\* successful fetch and after one that gave no well-formed line) or more
\* than the cache duration has passed since the last successful fetch; a
\* successful fetch sets last_fetch to the time of the call.
C9_RefreshRule ==
    [][pm'.turn # pm.turn =>
         /\ pm'.remote <=>
              /\ proxy_list_url
              /\ \/ proxy_list = <<>>
                 \/ last_fetch = Never
                 \/ now - last_fetch > cache_duration
         /\ last_fetch' # last_fetch => pm'.remote /\ last_fetch' = now
         /\ ~pm'.remote => proxy_list' = proxy_list /\ last_fetch' = last_fetch
      ]_vars

\* A call made exactly one cache duration after the last successful fetch,
\* with proxies cached, did not ask the feed.
C9_Witness ==
    /\ pm.op # "none"
    /\ pm.at = now
    /\ ~pm.remote
    /\ proxy_list # <<>>
    /\ last_fetch # Never
    /\ now - last_fetch = cache_duration

\* The entries of ret are those of pairwise distinct positions of list.
FromDistinctPositions(ret, list) ==
    \E idx \in [1..Len(ret) -> 1..Len(list)] :
        /\ \A i, j \in 1..Len(ret) : i # j => idx[i] # idx[j]
        /\ \A i \in 1..Len(ret) : ret[i] = list[idx[i]]

\* C10 as stated: get_multiple_proxies(count) returns min(count, number of
\* cached proxies) pairwise distinct proxies, all of the current list, and
\* the empty list when the list is empty or the URL is not configured.
C10_DistinctProxies ==
    pm.op = "get_multiple_proxies" =>
        /\ Len(pm.ret) = Min(pm.count, Len(proxy_list))
        /\ \A i \in 1..Len(pm.ret) : \E k \in 1..Len(proxy_list) : pm.ret[i] = proxy_list[k]
        /\ \A i, j \in 1..Len(pm.ret) : i # j => pm.ret[i] # pm.ret[j]
        /\ ~proxy_list_url \/ proxy_list = <<>> => pm.ret = <<>>

\* C10 as amended: get_multiple_proxies(count), count >= 0, returns
\* min(count, length of the list) entries taken from pairwise distinct
\* positions of the current list (the same proxy twice only if the list
\* holds it twice), all of the current list, and the empty list when the
\* list is empty or the URL is not configured.
C10_DistinctPositions ==
    pm.op = "get_multiple_proxies" =>
        /\ Len(pm.ret) = Min(pm.count, Len(proxy_list))
        /\ \A i \in 1..Len(pm.ret) : \E k \in 1..Len(proxy_list) : pm.ret[i] = proxy_list[k]
        /\ FromDistinctPositions(pm.ret, proxy_list)
        /\ ~proxy_list_url \/ proxy_list = <<>> => pm.ret = <<>>

\* Two proxies were asked for and two different ones handed out.
C10_Witness ==
    /\ pm.op = "get_multiple_proxies"
    /\ pm.count = 2
    /\ Len(pm.ret) = 2
    /\ pm.ret[1] # pm.ret[2]
    /\ Len(proxy_list) = 2

\* C11: a result fetch that answers 200 hands out the content and the
\* language of the successful extract call of the task's worker, neither
\* of them None, wherever the worker stands among its writes of status,
\* content, language, title, progress and message.
C11_ResultIsExtractionOutput ==
    resp.op = "result" /\ resp.code = 200 =>
        /\ resp.content # None
        /\ resp.language # None
        /\ worker[resp.id].result.success
        /\ resp.content = worker[resp.id].result.content
        /\ resp.language = worker[resp.id].result.language

\* C12: a worker whose task is deleted returns from
\* process_subtitle_extraction, no exception leaving the function, and an
\* id that left the store does not come back.
C12_WorkerTerminatesCleanly ==
    [][\A t \in 1..issued :
          /\ t \notin DOMAIN task_store => t \notin DOMAIN task_store'
          /\ t \in DOMAIN worker' => worker'[t].pc # "crashed"
      ]_vars

\* C13: a call of extract queries the transcript API first and yt-dlp at
\* most once after it; it queries yt-dlp only when the transcript API
\* raised TranscriptsDisabled or NoTranscriptFound; when the transcript API
\* raised VideoUnavailable, YouTubeRequestFailed or another
\* CouldNotRetrieveTranscript error it returns a failure with the transcript
\* API as the only source queried; without a video id it queries no source.
C13_SourcesQueried ==
    ex.phase = "returned" =>
        LET video_id == _extract_video_id(ex.url)
            api == _extract_with_transcript_api(
                       video_id, preferred_languages(ex.language_preference), ex.env)
        IN  /\ ex.queried \in {<<>>, <<"transcript_api">>, <<"transcript_api", "yt_dlp">>}
            /\ (\E i \in 1..Len(ex.queried) : ex.queried[i] = "yt_dlp")
                 => api.exc \in {"TranscriptsDisabled", "NoTranscriptFound"}
            /\ video_id # None
                 /\ api.exc \in {"VideoUnavailable", "YouTubeRequestFailed",
                                 "CouldNotRetrieveTranscript"}
                 => /\ ex.queried = <<"transcript_api">>
                    /\ ex.out.exc = ""
                    /\ ~ex.out.ret.success
            /\ video_id = None => ex.queried = <<>>

\* The transcript API listed the transcripts, the fetch of the chosen one
\* raised NoTranscriptFound, and yt-dlp, queried second, gave the captions.
C13_Witness ==
    /\ ex.phase = "returned"
    /\ ex.env.list_exc.exc = ""
    /\ ex.env.transcripts # <<>>
    /\ ex.env.fetch_exc.exc = "NoTranscriptFound"
    /\ ex.queried = <<"transcript_api", "yt_dlp">>
    /\ ex.out.ret.success

\* C14: when _extract_with_transcript_api returns a transcript, it is an
\* auto-generated one only if no manually created transcript exists in any
\* preferred language, and one of a language that is not preferred only if
\* no preferred language has a transcript.
C14_ManualFirst ==
    ex.phase = "returned" /\ ex.out.exc = "" =>
        LET lang == ex.out.ret.language[1]
            generated == ex.out.ret.language[2] = "(auto-generated)"
            transcripts == ex.env.transcripts
            Preferred(l) == \E i \in 1..Len(ex.prefs) : ex.prefs[i] = l
        IN  /\ generated =>
                 ~\E k \in 1..Len(transcripts) :
                     /\ ~transcripts[k].is_generated
                     /\ Preferred(transcripts[k].language_code)
            /\ ~Preferred(lang) =>
                 ~\E k \in 1..Len(transcripts) : Preferred(transcripts[k].language_code)

\* The languages a caption dict has tracks of.
Keys(d) == {d[i].lang : i \in 1..Len(d)}

\* The track of the fixed priority: the first preferred language among the
\* manual subtitles, else the first preferred language among the automatic
\* captions, else the first manual language, else the first automatic one.
PriorityTrack(subtitles, automatic_captions, prefs) ==
    LET manual    == {i \in 1..Len(prefs) : prefs[i] \in Keys(subtitles)}
        automatic == {i \in 1..Len(prefs) : prefs[i] \in Keys(automatic_captions)}
        Least(S)  == CHOOSE i \in S : \A j \in S : i <= j
    IN  IF manual # {}
        THEN [dict |-> "subtitles", lang |-> prefs[Least(manual)]]
        ELSE IF automatic # {}
        THEN [dict |-> "automatic_captions", lang |-> prefs[Least(automatic)]]
        ELSE IF Len(subtitles) > 0
        THEN [dict |-> "subtitles", lang |-> Head(subtitles).lang]
        ELSE IF Len(automatic_captions) > 0
        THEN [dict |-> "automatic_captions", lang |-> Head(automatic_captions).lang]
        ELSE [dict |-> "none", lang |-> ""]

\* _get_best_subtitles chose the track of the fixed priority, and a track it
\* returns carries the language, marked auto-generated for an automatic one.
ChoseByPriority ==
    /\ ex.track = PriorityTrack(ex.env.subtitles, ex.env.automatic_captions, ex.prefs)
    /\ ex.out.found =>
         ex.out.language = IF ex.track.dict = "automatic_captions"
                           THEN <<ex.track.lang, "(Auto-generated)">>
                           ELSE <<ex.track.lang>>

\* C15 as stated: the track is chosen by the fixed priority, and an
\* automatic track is never chosen while the video has a manual one.
C15_ManualNeverPassedOver ==
    ex.phase = "returned" =>
        /\ ChoseByPriority
        /\ ex.track.dict = "automatic_captions" => ex.env.subtitles = <<>>

\* C15 as amended: the track is chosen by the fixed priority; an automatic
\* track is chosen while the video has manual ones only if it is of a
\* preferred language and no manual track is.
C15_FixedPriority ==
    ex.phase = "returned" =>
        /\ ChoseByPriority
        /\ ex.track.dict = "automatic_captions" /\ ex.env.subtitles # <<>> =>
             /\ \E i \in 1..Len(ex.prefs) : ex.prefs[i] = ex.track.lang
             /\ \A i \in 1..Len(ex.prefs) : ex.prefs[i] \notin Keys(ex.env.subtitles)

\* The video has a manual track in fr only and automatic captions in en,
\* en is preferred and fr is not: the automatic en captions were returned.
C15_Witness ==
    /\ ex.phase = "returned"
    /\ Keys(ex.env.subtitles) = {"fr"}
    /\ \A i \in 1..Len(ex.prefs) : ex.prefs[i] # "fr"
    /\ ex.track = [dict |-> "automatic_captions", lang |-> "en"]
    /\ ex.out.found
    /\ ex.out.language = <<"en", "(Auto-generated)">>

\* The dict lists a track whose content can be downloaded and parsed.
Downloadable(d) ==
    \E k \in 1..Len(d) : d[k].formats # <<>> /\ Head(d[k].formats).fetch = "ok"

\* C16: _get_best_subtitles returns a track whenever one of the listed
\* tracks, manual or automatic, can be downloaded and parsed, and the
\* yt-dlp path then returns a success; it returns None, reported as "No
\* subtitles found for this video", only for a video without such a track.
C16_TrackWheneverAvailable ==
    ex.phase = "returned" =>
        /\ Downloadable(ex.env.subtitles) \/ Downloadable(ex.env.automatic_captions)
             => ex.out.found /\ ex.reply.ret.success
        /\ ~ex.out.found
             => ex.reply.ret.error = <<"No subtitles", "found for this video">>

\* C17: at most one extraction thread of the desktop GUI is active at any
\* time, and once the threads have returned the extract button is enabled.
C17_OneExtractionAtATime ==
    /\ Cardinality(active) <= 1
    /\ threads # <<>> /\ active = {} => gui.extract_btn = NORMAL

====
